---- MODULE Spec2Model ----
(***************************************************************************)
(* typst-2-rsx: the conversion of a Typst document into an RSX element     *)
(* tree.  typst_to_rsx (src/src/lib.rs) compiles the document to           *)
(* ./tmp/temp.svg with the typst CLI, reads the file, deserializes it into *)
(* the Svg object model (src/src/svg_types.rs) and rebuilds it as a tree   *)
(* of RSX elements with from_svg_element, from_g_element and from_symbol.  *)
(*                                                                         *)
(* Strings are TLA+ strings.  Option<String> is a record                   *)
(* [some, val]; Option<Vec<GEle>> is a record [some, val] whose val is a   *)
(* sequence.  An enum value carries its variant in the field "kind".       *)
(* An RSX element is a record [tag, attributes, children]; attributes is   *)
(* a function from the attribute identifiers written in the rsx! call      *)
(* (fill_rule is the spec's fillRule, stroke_width its strokeWidth,        *)
(* view_box its viewBox, preserve_aspect_ratio its preserveAspectRatio)    *)
(* to attribute values: Text(s) for a string, AttrNone for the absent      *)
(* value an Option::None is converted to.                                  *)
(***************************************************************************)
EXTENDS Naturals, Sequences, FiniteSets, TLC

\* ------------------------------------------------------------------------
\* Bounds of the model
\* ------------------------------------------------------------------------

\* longest child sequence of a Canvas, Group or DefinitionBlock that Init draws
MaxChildren == 3

\* deepest nesting of groups that Init draws
MaxDepth == 3

\* longest sequence of child elements side by side in the markup Init draws
MaxXmlChildren == 2

\* deepest nesting of elements beneath the svg element in the markup Init draws
MaxXmlDepth == 2

\* ------------------------------------------------------------------------
\* Values
\* ------------------------------------------------------------------------

\* Option<String>
None == [some |-> FALSE, val |-> ""]

Some(s) == [some |-> TRUE, val |-> s]

\* Option<Vec<GEle>>
NoElements == [some |-> FALSE, val |-> <<>>]

SomeElements(seq) == [some |-> TRUE, val |-> seq]

\* dioxus attribute values: a string, or the absent value of Option::None
Text(s) == [kind |-> "Text", text |-> s]

AttrNone == [kind |-> "None", text |-> ""]

\* Option::unwrap_or_default on Option<String>, passed to an attribute
unwrap_or_default(o) == Text(IF o.some THEN o.val ELSE "")

\* an Option<String> passed to an attribute as it is
into_value(o) == IF o.some THEN Text(o.val) ELSE AttrNone

\* g.elements.as_ref().map(|e| e.iter()...).unwrap_or_else(|| [].iter()...)
elements_or_empty(elements) == IF elements.some THEN elements.val ELSE <<>>

Element(tag, attributes, children) ==
    [tag |-> tag, attributes |-> attributes, children |-> children]

\* ------------------------------------------------------------------------
\* The tree remapper: the functions nested in parse_svg_to_rsx
\* ------------------------------------------------------------------------

\* the path of from_svg_element with fill passed as the Option it is
path_of_svg_element_option_fill(path) ==
    Element("path",
            [d                 |-> Text(path.d),
             class             |-> unwrap_or_default(path.class),
             fill              |-> into_value(path.fill),
             fill_rule         |-> unwrap_or_default(path.fill_rule),
             stroke            |-> unwrap_or_default(path.stroke),
             stroke_width      |-> unwrap_or_default(path.stroke_width),
             stroke_linecap    |-> unwrap_or_default(path.stroke_linecap),
             stroke_linejoin   |-> unwrap_or_default(path.stroke_linejoin),
             stroke_miterlimit |-> unwrap_or_default(path.stroke_miterlimit)],
            <<>>)

\* rsx!(path { d, class, fill, ... }) in from_svg_element: every optional
\* attribute goes through unwrap_or_default
path_of_svg_element(path) ==
    Element("path",
            [d                 |-> Text(path.d),
             class             |-> unwrap_or_default(path.class),
             fill              |-> unwrap_or_default(path.fill),
             fill_rule         |-> unwrap_or_default(path.fill_rule),
             stroke            |-> unwrap_or_default(path.stroke),
             stroke_width      |-> unwrap_or_default(path.stroke_width),
             stroke_linecap    |-> unwrap_or_default(path.stroke_linecap),
             stroke_linejoin   |-> unwrap_or_default(path.stroke_linejoin),
             stroke_miterlimit |-> unwrap_or_default(path.stroke_miterlimit)],
            <<>>)

\* rsx!(path { ... }) in from_g_element: class is passed as the Option it is
path_of_g_element(path) ==
    Element("path",
            [d                 |-> Text(path.d),
             class             |-> into_value(path.class),
             fill              |-> unwrap_or_default(path.fill),
             fill_rule         |-> unwrap_or_default(path.fill_rule),
             stroke            |-> unwrap_or_default(path.stroke),
             stroke_width      |-> unwrap_or_default(path.stroke_width),
             stroke_linecap    |-> unwrap_or_default(path.stroke_linecap),
             stroke_linejoin   |-> unwrap_or_default(path.stroke_linejoin),
             stroke_miterlimit |-> unwrap_or_default(path.stroke_miterlimit)],
            <<>>)

\* rsx! { path { d, class, fill, fill_rule } } in from_symbol: four attributes,
\* the optional ones passed as the Options they are
path_of_symbol(path) ==
    Element("path",
            [d         |-> Text(path.d),
             class     |-> into_value(path.class),
             fill      |-> into_value(path.fill),
             fill_rule |-> into_value(path.fill_rule)],
            <<>>)

\* the id a reference names: the href without its #
Target(href) ==
    CASE href = "#g1" -> "g1"
      [] href = "#missing" -> "missing"
      [] href = "#a" -> "a"
      [] OTHER -> href

\* use_of_g_element with href resolved to the id it names
use_of_g_element_href_target(uuse) ==
    Element("use",
            [fill      |-> into_value(uuse.fill),
             x         |-> Text(uuse.x),
             fill_rule |-> into_value(uuse.fill_rule),
             href      |-> Text(Target(uuse.href)),
             transform |-> into_value(uuse.transform)],
            <<>>)

\* use_of_g_element with the raw identifier of the macro call as its tag
use_of_g_element_raw_tag(uuse) ==
    Element("r#use",
            [fill      |-> into_value(uuse.fill),
             x         |-> Text(uuse.x),
             fill_rule |-> into_value(uuse.fill_rule),
             href      |-> Text(uuse.href),
             transform |-> into_value(uuse.transform)],
            <<>>)

\* rsx! { r#use { fill, x, fill_rule, href, transform } } in from_g_element
use_of_g_element(uuse) ==
    Element("use",
            [fill      |-> into_value(uuse.fill),
             x         |-> Text(uuse.x),
             fill_rule |-> into_value(uuse.fill_rule),
             href      |-> Text(uuse.href),
             transform |-> into_value(uuse.transform)],
            <<>>)

\* rsx!(image { width, height, preserve_aspect_ratio, href, transform }) in
\* from_g_element
image_of_g_element(image) ==
    Element("image",
            [width                 |-> Text(image.width),
             height                |-> Text(image.height),
             preserve_aspect_ratio |-> Text(image.preserve_aspect_ratio),
             href                  |-> Text(image.href),
             transform             |-> into_value(image.transform)],
            <<>>)

\* rsx! { image { width, height, preserve_aspect_ratio, href, transform } } in
\* from_symbol
image_of_symbol(image) ==
    Element("image",
            [width                 |-> Text(image.width),
             height                |-> Text(image.height),
             preserve_aspect_ratio |-> Text(image.preserve_aspect_ratio),
             href                  |-> Text(image.href),
             transform             |-> into_value(image.transform)],
            <<>>)

RECURSIVE from_g_element(_)

\* the node dioxus renders for an Option::None child
Placeholder == Element("placeholder", [id |-> AttrNone], <<>>)

\* g_of_g_element with the Option of the elements mapped as it is: a None is
\* rendered as a placeholder child
g_of_g_element_option_child(g) ==
    Element("g",
            [class     |-> unwrap_or_default(g.class),
             transform |-> unwrap_or_default(g.transform)],
            IF g.elements.some
            THEN [i \in 1..Len(g.elements.val) |-> from_g_element(g.elements.val[i])]
            ELSE <<Placeholder>>)

\* GEle::G(g) in from_g_element: rsx! { g { class, transform, {children} } }
g_of_g_element(g) ==
    Element("g",
            [class     |-> unwrap_or_default(g.class),
             transform |-> unwrap_or_default(g.transform)],
            LET es == elements_or_empty(g.elements)
            IN  [i \in 1..Len(es) |-> from_g_element(es[i])])

from_g_element(tag) ==
    CASE tag.kind = "G"     -> g_of_g_element(tag)
      [] tag.kind = "Use"   -> use_of_g_element(tag)
      [] tag.kind = "Path"  -> path_of_g_element(tag)
      [] tag.kind = "Image" -> image_of_g_element(tag)

\* g_of_svg_element with the children collected back to front
g_of_svg_element_reversed(g) ==
    Element("g",
            [class     |-> unwrap_or_default(g.class),
             transform |-> unwrap_or_default(g.transform)],
            LET es == elements_or_empty(g.elements)
            IN  [i \in 1..Len(es) |-> from_g_element(es[Len(es) + 1 - i])])

\* SvgElement::G(g) in from_svg_element: rsx!(g { class, transform, {children} })
g_of_svg_element(g) ==
    Element("g",
            [class     |-> unwrap_or_default(g.class),
             transform |-> unwrap_or_default(g.transform)],
            LET es == elements_or_empty(g.elements)
            IN  [i \in 1..Len(es) |-> from_g_element(es[i])])

\* symbol_content with the image arm written as a copy of the path arm's tag
symbol_content_path_tag(element) ==
    CASE element.kind = "Path"  -> path_of_symbol(element)
      [] element.kind = "Image" ->
            Element("path", image_of_symbol(element).attributes, <<>>)

\* the match on tag.element in from_symbol
symbol_content(element) ==
    CASE element.kind = "Path"  -> path_of_symbol(element)
      [] element.kind = "Image" -> image_of_symbol(element)

\* from_symbol without the block that builds the content
from_symbol_no_content(tag) ==
    Element("symbol",
            [id |-> Text(tag.id), overflow |-> Text(tag.overflow)],
            <<>>)

from_symbol(tag) ==
    Element("symbol",
            [id |-> Text(tag.id), overflow |-> Text(tag.overflow)],
            <<symbol_content(tag.element)>>)

\* SvgElement::Defs(defs) in from_svg_element: rsx!(defs { id, {children} })
defs_of_svg_element(defs) ==
    Element("defs", [id |-> Text(defs.id)],
            [i \in 1..Len(defs.elements) |-> from_symbol(defs.elements[i])])

from_svg_element(tag) ==
    CASE tag.kind = "Path" -> path_of_svg_element(tag)
      [] tag.kind = "G"    -> g_of_svg_element(tag)
      [] tag.kind = "Defs" -> defs_of_svg_element(tag)

\* the svg element with class carried over as well
svg_element_with_class(parsed) ==
    Element("svg",
            [view_box |-> Text(parsed.view_box),
             width    |-> Text(parsed.width),
             height   |-> Text(parsed.height),
             class    |-> Text(parsed.class)],
            [i \in 1..Len(parsed.elements) |-> from_svg_element(parsed.elements[i])])

\* the Ok arm of parse_svg_to_rsx: rsx!(svg { view_box, width, height, {children} })
svg_element(parsed) ==
    Element("svg",
            [view_box |-> Text(parsed.view_box),
             width    |-> Text(parsed.width),
             height   |-> Text(parsed.height)],
            [i \in 1..Len(parsed.elements) |-> from_svg_element(parsed.elements[i])])

\* ------------------------------------------------------------------------
\* The object model (svg_types.rs) and the values Init draws from it
\* ------------------------------------------------------------------------

\* sequences over S of length 0..n
SeqsUpTo(S, n) == UNION {[1..k -> S] : k \in 0..n}

\* the values an optional attribute takes: absent, present and empty, present
OptStrings == {None, Some(""), Some("a")}

\* struct Path with every combination of its optional attributes
Paths ==
    [kind : {"Path"}, d : {"M0 0L10 10"},
     class : OptStrings, fill : OptStrings, stroke : OptStrings,
     fill_rule : OptStrings, stroke_width : OptStrings,
     stroke_linecap : OptStrings, stroke_linejoin : OptStrings,
     stroke_miterlimit : OptStrings]

\* struct Use with every combination of its optional attributes
Uses ==
    [kind : {"Use"}, fill : OptStrings, x : {"0", "12"},
     fill_rule : OptStrings, href : {"#s1", "#nowhere"},
     transform : OptStrings]

\* struct Image with its optional attribute absent or present
Images ==
    [kind : {"Image"}, width : {"8"}, height : {"9"},
     preserve_aspect_ratio : {"none"}, href : {"data:a", "data:b"},
     transform : OptStrings]

\* struct G
G(class, transform, elements) ==
    [kind |-> "G", class |-> class, transform |-> transform,
     elements |-> elements]

\* struct Defs
Defs(id, elements) == [kind |-> "Defs", id |-> id, elements |-> elements]

\* struct Symbol
Symbol(id, overflow, element) ==
    [id |-> id, overflow |-> overflow, element |-> element]

\* struct Svg
Svg(class, width, height, view_box, elements) ==
    [class |-> class, width |-> width, height |-> height,
     view_box |-> view_box, elements |-> elements]

\* a Path with no optional attribute, told from the others by its d
PlainPath(d) ==
    [kind |-> "Path", d |-> d, class |-> None, fill |-> None, stroke |-> None,
     fill_rule |-> None, stroke_width |-> None, stroke_linecap |-> None,
     stroke_linejoin |-> None, stroke_miterlimit |-> None]

PlainUse(href) ==
    [kind |-> "Use", fill |-> None, x |-> "0", fill_rule |-> None,
     href |-> href, transform |-> None]

PlainImage(href) ==
    [kind |-> "Image", width |-> "8", height |-> "9",
     preserve_aspect_ratio |-> "none", href |-> href, transform |-> None]

\* a few leaves that differ from each other, for the sequences and the nesting
FewGLeaves == {PlainPath("A"), PlainPath("B"), PlainUse("#a"), PlainImage("i")}

FewSymbols ==
    {Symbol("s1", "visible", PlainPath("A")),
     Symbol("s2", "visible", PlainPath("B")),
     Symbol("s3", "hidden", PlainImage("i"))}

\* groups without children, in both states of the Option, with every
\* combination of the optional attributes
ChildlessGs ==
    {G(c, t, e) : c \in OptStrings, t \in OptStrings,
                  e \in {NoElements, SomeElements(<<>>)}}

\* groups nested in groups, each level holding one child, down to depth n
RECURSIVE NestedGEles(_)
NestedGEles(n) ==
    IF n = 0
    THEN FewGLeaves \cup {G(None, None, NoElements),
                          G(Some("c"), None, SomeElements(<<>>))}
    ELSE NestedGEles(n - 1)
         \cup {G(None, Some("t"), SomeElements(<<e>>)) : e \in NestedGEles(n - 1)}

\* the children a Canvas and a Group are given in the sequences
FewSvgElements ==
    {PlainPath("A"), PlainPath("B"),
     G(None, None, NoElements),
     G(None, None, SomeElements(<<>>)),
     G(None, None, SomeElements(<<PlainUse("#a"), PlainImage("i")>>)),
     Defs("d0", <<>>),
     Defs("d1", <<Symbol("s1", "visible", PlainPath("A"))>>)}

FewGElements ==
    FewGLeaves \cup {G(None, None, NoElements),
                     G(None, None, SomeElements(<<>>)),
                     G(Some("c"), None, SomeElements(<<PlainPath("B")>>))}

\* the child sequences of the canvases Init draws
CanvasElements ==
    \* one path, with every combination of attributes, in each place a path can be
    {<<p>> : p \in Paths}
    \cup {<<G(None, None, SomeElements(<<p>>))>> : p \in Paths}
    \cup {<<Defs("d1", <<Symbol("s1", "visible", p)>>)>> : p \in Paths}
    \* one use or image, with every combination of attributes, in each place
    \cup {<<G(None, None, SomeElements(<<e>>))>> : e \in Uses \cup Images}
    \cup {<<Defs("d1", <<Symbol("s1", "visible", i)>>)>> : i \in Images}
    \* childless groups under the canvas and under a group
    \cup {<<g>> : g \in ChildlessGs}
    \cup {<<G(None, None, SomeElements(<<g>>))>> : g \in ChildlessGs}
    \* sequences of children of a canvas, of a group, of a defs
    \cup SeqsUpTo(FewSvgElements, MaxChildren)
    \cup {<<G(None, None, SomeElements(es))>> : es \in SeqsUpTo(FewGElements, MaxChildren)}
    \cup {<<Defs("d1", ss)>> : ss \in SeqsUpTo(FewSymbols, MaxChildren)}
    \* nested groups
    \cup {<<G(Some("c"), None, SomeElements(<<e>>))>> : e \in NestedGEles(MaxDepth)}

Canvases ==
    {Svg("typst-doc", "100", "50", "0 0 100 50", es) : es \in CanvasElements}

\* ------------------------------------------------------------------------
\* Markup, and from_str::<Svg> as the derived Deserialize of svg_types.rs
\* reads it
\* ------------------------------------------------------------------------
\* A markup element is a record [tag, attrs, children]: attrs a set of
\* <<name, value>> pairs with the names as written in the markup, children a
\* sequence of elements.  The leaves path, use and image are written without
\* child elements.  A markup text is a record [well_formed, root].
\*
\* A struct is read from an element by its fields: a String field that is not
\* among the attributes is the error "missing field", an Option field that is
\* not there is None, attributes that are no field are skipped.  The "$value"
\* field takes the child elements; without a child element the field is
\* missing.  An enum is read from an element by its tag, which must be one of
\* the variants in kebab-case.  The name of a struct is not compared with the
\* tag: the tag is looked at only where an enum is read.

XmlNode(tag, attrs, children) ==
    [tag |-> tag, attrs |-> attrs, children |-> children]

HasAttr(node, name) == \E a \in node.attrs : a[1] = name

AttrOf(node, name) == (CHOOSE a \in node.attrs : a[1] = name)[2]

\* a field of type Option<String>
OptionField(node, name) ==
    IF HasAttr(node, name) THEN Some(AttrOf(node, name)) ELSE None

\* results of deserializing
DeOk(v) == [ok |-> TRUE, val |-> v, err |-> ""]

DeErr(e) == [ok |-> FALSE, val |-> <<>>, err |-> e]

\* the first of the String fields, in the order of the struct, that the element
\* does not have; 0 when it has them all
RECURSIVE FirstMissing(_, _, _)
FirstMissing(node, fields, i) ==
    IF i > Len(fields) THEN 0
    ELSE IF ~HasAttr(node, fields[i]) THEN i
    ELSE FirstMissing(node, fields, i + 1)

MissingField(node, fields) ==
    LET i == FirstMissing(node, fields, 1)
    IN  IF i = 0 THEN "" ELSE fields[i]

\* the first error of a sequence of results; "" when there is none
RECURSIVE FirstError(_, _)
FirstError(results, i) ==
    IF i > Len(results) THEN ""
    ELSE IF ~results[i].ok THEN results[i].err
    ELSE FirstError(results, i + 1)

\* a Vec read from child elements, each read on its own
DeSeq(results) ==
    IF FirstError(results, 1) # ""
    THEN DeErr(FirstError(results, 1))
    ELSE DeOk([i \in 1..Len(results) |-> results[i].val])

\* struct Path
de_Path(node) ==
    IF MissingField(node, <<"d">>) # ""
    THEN DeErr("missing field")
    ELSE DeOk([kind              |-> "Path",
               d                 |-> AttrOf(node, "d"),
               class             |-> OptionField(node, "class"),
               fill              |-> OptionField(node, "fill"),
               stroke            |-> OptionField(node, "stroke"),
               fill_rule         |-> OptionField(node, "fill-rule"),
               stroke_width      |-> OptionField(node, "stroke-width"),
               stroke_linecap    |-> OptionField(node, "stroke-linecap"),
               stroke_linejoin   |-> OptionField(node, "stroke-linejoin"),
               stroke_miterlimit |-> OptionField(node, "stroke-miterlimit")])

\* struct Use with its String fields defaulted, as with #[serde(default)]
de_Use_defaulted(node) ==
    DeOk([kind      |-> "Use",
          fill      |-> OptionField(node, "fill"),
          x         |-> IF HasAttr(node, "x") THEN AttrOf(node, "x") ELSE "",
          fill_rule |-> OptionField(node, "fill-rule"),
          href      |-> IF HasAttr(node, "href") THEN AttrOf(node, "href") ELSE "",
          transform |-> OptionField(node, "transform")])

\* struct Use
de_Use(node) ==
    IF MissingField(node, <<"x", "href">>) # ""
    THEN DeErr("missing field")
    ELSE DeOk([kind      |-> "Use",
               fill      |-> OptionField(node, "fill"),
               x         |-> AttrOf(node, "x"),
               fill_rule |-> OptionField(node, "fill-rule"),
               href      |-> AttrOf(node, "href"),
               transform |-> OptionField(node, "transform")])

\* struct Image
de_Image(node) ==
    IF MissingField(node, <<"width", "height", "preserveAspectRatio", "href">>) # ""
    THEN DeErr("missing field")
    ELSE DeOk([kind                  |-> "Image",
               width                 |-> AttrOf(node, "width"),
               height                |-> AttrOf(node, "height"),
               preserve_aspect_ratio |-> AttrOf(node, "preserveAspectRatio"),
               href                  |-> AttrOf(node, "href"),
               transform             |-> OptionField(node, "transform")])

RECURSIVE de_GEle(_)

\* struct G: elements is an Option, None without child elements
de_G(node) ==
    LET elements ==
            IF node.children = <<>>
            THEN DeOk(NoElements)
            ELSE LET seq == DeSeq([i \in 1..Len(node.children) |->
                                       de_GEle(node.children[i])])
                 IN  IF seq.ok THEN DeOk(SomeElements(seq.val)) ELSE seq
    IN  IF ~elements.ok
        THEN elements
        ELSE DeOk(G(OptionField(node, "class"), OptionField(node, "transform"),
                    elements.val))

\* enum GEle
de_GEle(node) ==
    CASE node.tag = "g"     -> de_G(node)
      [] node.tag = "use"   -> de_Use(node)
      [] node.tag = "path"  -> de_Path(node)
      [] node.tag = "image" -> de_Image(node)
      [] OTHER              -> DeErr("unknown variant")

\* enum SymbolEle
de_SymbolEle(node) ==
    CASE node.tag = "path"  -> de_Path(node)
      [] node.tag = "image" -> de_Image(node)
      [] OTHER              -> DeErr("unknown variant")

\* struct Symbol: element is one SymbolEle, read from the one child element; a
\* second child element is a second "$value"
de_Symbol(node) ==
    IF node.children # <<>> /\ ~de_SymbolEle(node.children[1]).ok
    THEN de_SymbolEle(node.children[1])
    ELSE IF Len(node.children) > 1
    THEN DeErr("duplicate field")
    ELSE IF MissingField(node, <<"id", "overflow">>) # "" \/ node.children = <<>>
    THEN DeErr("missing field")
    ELSE DeOk(Symbol(AttrOf(node, "id"), AttrOf(node, "overflow"),
                     de_SymbolEle(node.children[1]).val))

\* struct Defs: elements is a Vec<Symbol>, every child element read as a Symbol
de_Defs(node) ==
    LET seq == DeSeq([i \in 1..Len(node.children) |-> de_Symbol(node.children[i])])
    IN  IF ~seq.ok
        THEN seq
        ELSE IF MissingField(node, <<"id">>) # "" \/ node.children = <<>>
        THEN DeErr("missing field")
        ELSE DeOk(Defs(AttrOf(node, "id"), seq.val))

\* enum SvgEle
de_SvgEle(node) ==
    CASE node.tag = "path" -> de_Path(node)
      [] node.tag = "g"    -> de_G(node)
      [] node.tag = "defs" -> de_Defs(node)
      [] OTHER             -> DeErr("unknown variant")

\* struct Svg: elements is a Vec<SvgEle>
de_Svg(node) ==
    LET seq == DeSeq([i \in 1..Len(node.children) |-> de_SvgEle(node.children[i])])
    IN  IF ~seq.ok
        THEN seq
        ELSE IF MissingField(node, <<"class", "width", "height", "viewBox">>) # ""
                \/ node.children = <<>>
        THEN DeErr("missing field")
        ELSE DeOk(Svg(AttrOf(node, "class"), AttrOf(node, "width"),
                      AttrOf(node, "height"), AttrOf(node, "viewBox"), seq.val))

\* from_str(svg_str)
from_str(svg_str) ==
    IF ~svg_str.well_formed THEN DeErr("syntax") ELSE de_Svg(svg_str.root)

\* ------------------------------------------------------------------------
\* The markup texts Init draws
\* ------------------------------------------------------------------------

\* the value an attribute of this name is written with
SampleValue(name) ==
    CASE name = "d"      -> "M0 0L10 10"
      [] name = "class"  -> "typst-doc"
      [] name = "width"  -> "100"
      [] name = "height" -> "50"
      [] name = "viewBox" -> "0 0 100 50"
      [] name = "x"      -> "12"
      [] name = "href"   -> "#g1"
      [] name = "id"     -> "g1"
      [] name = "overflow" -> "visible"
      [] name = "preserveAspectRatio" -> "none"
      [] name = "transform" -> "matrix(1 0 0 1 0 0)"
      [] name = "fill"   -> "#000000"
      [] name = "fill-rule" -> "nonzero"
      [] name = "stroke" -> "#ff0000"
      [] OTHER           -> "1"

Attrs(names) == {<<n, SampleValue(n)>> : n \in names}

\* the String fields and the Option<String> fields of the struct a tag is read as
RequiredNames(tag) ==
    CASE tag = "svg"    -> {"class", "width", "height", "viewBox"}
      [] tag = "path"   -> {"d"}
      [] tag = "use"    -> {"x", "href"}
      [] tag = "image"  -> {"width", "height", "preserveAspectRatio", "href"}
      [] tag = "defs"   -> {"id"}
      [] tag = "symbol" -> {"id", "overflow"}
      [] OTHER          -> {}

OptionalNames(tag) ==
    CASE tag = "path"  -> {"class", "fill", "stroke", "fill-rule", "stroke-width",
                           "stroke-linecap", "stroke-linejoin", "stroke-miterlimit"}
      [] tag = "g"     -> {"class", "transform"}
      [] tag = "use"   -> {"fill", "fill-rule", "transform"}
      [] tag = "image" -> {"transform"}
      [] OTHER         -> {}

\* the attribute sets an element of this tag is written with: the required
\* ones, those and the optional ones, and the required ones but one
AttrChoices(tag) ==
    {Attrs(RequiredNames(tag)), Attrs(RequiredNames(tag) \cup OptionalNames(tag))}
    \cup {Attrs(RequiredNames(tag) \ {r}) : r \in RequiredNames(tag)}

\* elements without child elements: every tag of the schema and one that is
\* not of the schema
LeafTags == {"path", "use", "image", "rect"}

\* elements that hold child elements, with the attributes of their own tag; a g
\* and a rect are also written with the attributes of a symbol
ContainerHeads ==
    {XmlNode(t, a, <<>>) : t \in {"g"}, a \in AttrChoices("g")}
    \cup {XmlNode(t, a, <<>>) : t \in {"defs"}, a \in AttrChoices("defs")}
    \cup {XmlNode(t, a, <<>>) : t \in {"symbol"}, a \in AttrChoices("symbol")}
    \cup {XmlNode(t, Attrs(RequiredNames("symbol")), <<>>) : t \in {"g", "rect"}}

Leaves ==
    UNION {{XmlNode(t, a, <<>>) : a \in AttrChoices(t)} : t \in LeafTags}

\* elements nested one in another, each holding one child, n levels deep
RECURSIVE NestedNodes(_)
NestedNodes(n) ==
    IF n = 0
    THEN Leaves \cup ContainerHeads
    ELSE NestedNodes(0)
         \cup {XmlNode(h.tag, h.attrs, <<c>>) :
                   h \in ContainerHeads, c \in NestedNodes(n - 1)}

GoodPath == XmlNode("path", Attrs({"d"}), <<>>)

GoodUse == XmlNode("use", Attrs({"x", "href"}), <<>>)

GoodImage ==
    XmlNode("image", Attrs({"width", "height", "preserveAspectRatio", "href"}), <<>>)

GoodSymbol(child) == XmlNode("symbol", Attrs({"id", "overflow"}), <<child>>)

\* the children written side by side under each container
FewSvgChildren ==
    {GoodPath, XmlNode("g", {}, <<GoodUse>>),
     XmlNode("defs", Attrs({"id"}), <<GoodSymbol(GoodPath)>>),
     GoodUse, XmlNode("rect", {}, <<>>)}

FewGChildren ==
    {GoodPath, GoodUse, GoodImage, XmlNode("g", {}, <<>>),
     XmlNode("text", {}, <<>>), GoodSymbol(GoodPath)}

FewDefsChildren ==
    {GoodSymbol(GoodPath), GoodSymbol(GoodImage),
     XmlNode("g", Attrs({"id", "overflow"}), <<GoodPath>>), GoodPath}

FewSymbolChildren == {GoodPath, GoodImage, XmlNode("g", {}, <<>>)}

SvgRoot(attrs, children) == XmlNode("svg", attrs, children)

MarkupRoots ==
    \* the svg with each of its attribute sets
    {SvgRoot(a, cs) : a \in AttrChoices("svg"), cs \in {<<>>, <<GoodPath>>}}
    \* nested elements
    \cup {SvgRoot(Attrs(RequiredNames("svg")), <<c>>) : c \in NestedNodes(MaxXmlDepth)}
    \* elements side by side
    \cup {SvgRoot(Attrs(RequiredNames("svg")), cs) :
              cs \in SeqsUpTo(FewSvgChildren, MaxXmlChildren)}
    \cup {SvgRoot(Attrs(RequiredNames("svg")), <<XmlNode("g", {}, cs)>>) :
              cs \in SeqsUpTo(FewGChildren, MaxXmlChildren)}
    \cup {SvgRoot(Attrs(RequiredNames("svg")), <<XmlNode("defs", Attrs({"id"}), cs)>>) :
              cs \in SeqsUpTo(FewDefsChildren, MaxXmlChildren)}
    \cup {SvgRoot(Attrs(RequiredNames("svg")),
                  <<XmlNode("defs", Attrs({"id"}),
                            <<XmlNode("symbol", Attrs({"id", "overflow"}), cs)>>)>>) :
              cs \in SeqsUpTo(FewSymbolChildren, MaxXmlChildren)}

\* a text that is not well-formed XML
Malformed == [well_formed |-> FALSE, root |-> SvgRoot({}, <<>>)]

\* a use that names an id no symbol of the document has, beside a defs with
\* a symbol of another id
DanglingMarkup ==
    [well_formed |-> TRUE,
     root |-> SvgRoot(Attrs(RequiredNames("svg")),
                      <<XmlNode("defs", Attrs({"id"}), <<GoodSymbol(GoodPath)>>),
                        XmlNode("g", {},
                                <<XmlNode("use", {<<"x", "7">>, <<"href", "#missing">>},
                                          <<>>)>>)>>)]

\* documents whose svg has each of its attributes written with a number or
\* with a text that is none
RootValueMarkups ==
    {[well_formed |-> TRUE,
      root |-> SvgRoot({<<"class", c>>, <<"width", w>>, <<"height", h>>,
                        <<"viewBox", vb>>},
                       <<GoodPath>>)] :
        c \in {"", "typst-doc"}, w \in {"100", "auto"}, h \in {"50", "1e3 pt"},
        vb \in {"0 0 100 50", "not a box"}}

\* <svg class="" width="100" height="100" viewBox="0 0 100 100">
\*   <path d="M0 0L10 10"/></svg>
ScenarioMarkup ==
    [well_formed |-> TRUE,
     root |-> SvgRoot({<<"class", "">>, <<"width", "100">>, <<"height", "100">>,
                       <<"viewBox", "0 0 100 100">>},
                      <<XmlNode("path", {<<"d", "M0 0L10 10">>}, <<>>)>>)]

Markups ==
    {[well_formed |-> TRUE, root |-> r] : r \in MarkupRoots}
    \cup {Malformed, ScenarioMarkup, DanglingMarkup}
    \cup RootValueMarkups

\* ------------------------------------------------------------------------
\* State
\* ------------------------------------------------------------------------

VARIABLES
    pc,            \* where the call is: "compile", "read", "parse", "rsx", "returned"
    typst_output,  \* the markup the typst CLI writes for the input document
    temp_svg,      \* the output file (./tmp/temp.svg): whether it exists, and its text
    status,        \* what typst_compile returned: "none" before it has
    content,       \* the text read_file returned
    parsed,        \* the Svg from_str returned
    result,        \* what the call returned: NoResult until it returns
    steps,         \* the steps the call has run so far, in order
    out_depth,     \* the directories on the way to the output file's parent
    dirs,          \* how many of them exist, counted from the top
    calls,         \* the calls made so far, this one included
    file_bytes,    \* the bytes of the file a direct call of read_file reads
    read_result,   \* what that call returned
    other,         \* a second call of typst_to_rsx running at the same time
    msg,           \* the text ConvertError::new is called with
    convert_error, \* the ConvertError it returned
    displayed      \* what formatting that error with {} wrote

vars ==
    <<pc, typst_output, temp_svg, status, content, parsed, result, steps,
      out_depth, dirs, calls, file_bytes, read_result, other, msg,
      convert_error, displayed>>

error_vars == <<msg, convert_error, displayed>>

\* no ConvertError made yet
NoConvertError == [made |-> FALSE, details |-> <<>>]

\* nothing written yet
NotDisplayed == [written |-> FALSE, text |-> <<>>]

NoError == [variant |-> "", cause |-> ""]

NoResult == [kind |-> "none", rsx |-> <<>>, err |-> NoError]

Ok(rsx) == [kind |-> "Ok", rsx |-> rsx, err |-> NoError]

Err(variant, cause) ==
    [kind |-> "Err", rsx |-> <<>>, err |-> [variant |-> variant, cause |-> cause]]

\* the ? on a Result<_, std::io::Error> in a function returning the crate's
\* Error: the one From<std::io::Error> for Error, used for create_dir_all in
\* typst_compile and for read_file in typst_to_rsx alike
from_io_error(cause) == Err("ReadFailure", cause)

NoFile == [exists |-> FALSE, text |-> Malformed]

File(text) == [exists |-> TRUE, text |-> text]

NoSvg == Svg("", "", "", "", <<>>)

NoRead == [kind |-> "none", text |-> <<>>]

\* no second call
NoOther ==
    [pc |-> "none", typst_output |-> Malformed, status |-> "none",
     content |-> Malformed, parsed |-> NoSvg, result |-> NoResult,
     compiled_at |-> "none"]

\* a file left at ./tmp/temp.svg before the call
StaleMarkup ==
    [well_formed |-> TRUE,
     root |-> SvgRoot(Attrs(RequiredNames("svg")),
                      <<XmlNode("path", {<<"d", "M9 9">>}, <<>>)>>)]

\* typst_compile with fs::create_dir in place of fs::create_dir_all: it makes
\* the last directory only, and fails when that one is there already
typst_compile_returns_create_dir(written, ret) ==
    \/ /\ ~temp_svg.exists
       /\ dirs # out_depth - 1
       /\ ret = "Err(create_dir_all)"
       /\ UNCHANGED <<dirs, temp_svg>>
    \/ /\ temp_svg.exists \/ dirs = out_depth - 1
       /\ ret = "Err(spawn)"
       /\ dirs' = out_depth
       /\ UNCHANGED temp_svg
    \/ /\ temp_svg.exists \/ dirs = out_depth - 1
       /\ ret = "Ok(success)"
       /\ dirs' = out_depth
       /\ temp_svg' = File(written)
    \/ /\ temp_svg.exists \/ dirs = out_depth - 1
       /\ ret = "Ok(failure)"
       /\ dirs' = out_depth
       /\ UNCHANGED temp_svg

\* the body of typst_compile(input_typ_file, output_svg_file).  When the
\* output file does not exist, create_dir_all(parent) creates the directories
\* that are missing, all of them, and returns Ok when none is missing; it can
\* fail only while one is missing, and may have created some by then.  Then
\* the typst command is started, which can fail; when it runs, its exit status
\* is returned in Ok, whatever it is.  typst writes the file when it succeeds
\* (written is what it makes of input_typ_file) and leaves it as it was when
\* it fails.
typst_compile_returns(written, ret) ==
    \/ /\ ~temp_svg.exists
       /\ dirs < out_depth
       /\ ret = "Err(create_dir_all)"
       /\ dirs' \in dirs..(out_depth - 1)
       /\ UNCHANGED temp_svg
    \/ /\ ret = "Err(spawn)"
       /\ dirs' = IF temp_svg.exists THEN dirs ELSE out_depth
       /\ UNCHANGED temp_svg
    \/ /\ ret = "Ok(success)"
       /\ dirs' = IF temp_svg.exists THEN dirs ELSE out_depth
       /\ temp_svg' = File(written)
    \/ /\ ret = "Ok(failure)"
       /\ dirs' = IF temp_svg.exists THEN dirs ELSE out_depth
       /\ UNCHANGED temp_svg

CompileReturns ==
    {"Err(create_dir_all)", "Err(spawn)", "Ok(success)", "Ok(failure)"}

\* typst_compile(input_typ_file, "./tmp/temp.svg")? in typst_to_rsx: an Err is
\* returned to the caller, an Ok goes on to the read and its ExitStatus is
\* dropped
typst_compile ==
    /\ pc = "compile"
    /\ steps' = Append(steps, "compile")
    /\ \E ret \in CompileReturns :
           /\ typst_compile_returns(typst_output, ret)
           /\ \/ /\ ret = "Err(create_dir_all)"
                 /\ status' = "Err"
                 /\ result' = from_io_error("create_dir_all")
                 /\ pc' = "returned"
              \/ /\ ret = "Err(spawn)"
                 /\ status' = "Err"
                 /\ result' = Err("TypstCompileError", "spawn")
                 /\ pc' = "returned"
              \/ /\ ret \in {"Ok(success)", "Ok(failure)"}
                 /\ status' = ret
                 /\ pc' = "read"
                 /\ UNCHANGED result
    /\ UNCHANGED <<typst_output, content, parsed, out_depth, calls, file_bytes,
                   read_result, other>>
    /\ UNCHANGED error_vars

\* read_file("./tmp/temp.svg")? in typst_to_rsx: the file cannot be opened, or
\* a line cannot be read, or the text is returned.  The text is carried as the
\* elements it is made of, which the terminators of its lines do not change.
read_file ==
    /\ pc = "read"
    /\ steps' = Append(steps, "read")
    /\ \/ /\ ~temp_svg.exists
          /\ result' = from_io_error("open")
          /\ pc' = "returned"
          /\ UNCHANGED content
       \/ /\ temp_svg.exists
          /\ result' = from_io_error("read")
          /\ pc' = "returned"
          /\ UNCHANGED content
       \/ /\ temp_svg.exists
          /\ content' = temp_svg.text
          /\ pc' = "parse"
          /\ UNCHANGED result
    /\ UNCHANGED <<typst_output, temp_svg, status, parsed, out_depth, dirs, calls,
                   file_bytes, read_result, other>>
    /\ UNCHANGED error_vars

\* from_str(svg_str).unwrap() in place of the match: an Err is a panic
parse_svg_to_rsx_from_str_unwrap ==
    /\ pc = "parse"
    /\ steps' = Append(steps, "parse")
    /\ \/ /\ from_str(content).ok
          /\ parsed' = from_str(content).val
          /\ pc' = "rsx"
       \/ /\ ~from_str(content).ok
          /\ pc' = "panicked"
          /\ UNCHANGED parsed
    /\ UNCHANGED <<typst_output, temp_svg, status, content, result, out_depth,
                   dirs, calls, file_bytes, read_result, other>>
    /\ UNCHANGED error_vars

\* the match on from_str(svg_str) in parse_svg_to_rsx: the Err arm returns
\* Error::SvgParseError(e), the Ok arm goes on with the Svg
parse_svg_to_rsx_from_str ==
    /\ pc = "parse"
    /\ steps' = Append(steps, "parse")
    /\ \/ /\ from_str(content).ok
          /\ parsed' = from_str(content).val
          /\ pc' = "rsx"
          /\ UNCHANGED result
       \/ /\ ~from_str(content).ok
          /\ result' = Err("SvgParseError", from_str(content).err)
          /\ pc' = "returned"
          /\ UNCHANGED parsed
    /\ UNCHANGED <<typst_output, temp_svg, status, content, out_depth, dirs, calls,
                   file_bytes, read_result, other>>
    /\ UNCHANGED error_vars

\* the Ok arm of the match in parse_svg_to_rsx: build the svg element and
\* return it
parse_svg_to_rsx_ok ==
    /\ pc = "rsx"
    /\ steps' = Append(steps, "rsx")
    /\ result' = Ok(svg_element(parsed))
    /\ pc' = "returned"
    /\ UNCHANGED <<typst_output, temp_svg, status, content, parsed, out_depth,
                   dirs, calls, file_bytes, read_result, other>>
    /\ UNCHANGED error_vars

\* the output file and the directories above it: the file exists only when
\* they all do
FileSystems(depth) ==
    {[file |-> f, dirs |-> k] :
        f \in {NoFile, File(StaleMarkup)}, k \in 0..depth}
    \ {[file |-> File(StaleMarkup), dirs |-> k] : k \in 0..(depth - 1)}

\* typst_to_rsx(input_typ_file), called with ./tmp absent or there, and
\* ./tmp/temp.svg absent or left by an earlier call
Init ==
    /\ pc = "compile"
    /\ typst_output \in Markups
    /\ out_depth = 1
    /\ \E fs \in FileSystems(1) : temp_svg = fs.file /\ dirs = fs.dirs
    /\ status = "none"
    /\ content = Malformed
    /\ parsed = NoSvg
    /\ result = NoResult
    /\ steps = <<>>
    /\ calls = 1
    /\ file_bytes = [exists |-> FALSE, bytes |-> <<>>]
    /\ read_result = NoRead
    /\ other = NoOther
    /\ msg = <<>>
    /\ convert_error = NoConvertError
    /\ displayed = NotDisplayed

Next ==
    \/ typst_compile
    \/ read_file
    \/ parse_svg_to_rsx_from_str
    \/ parse_svg_to_rsx_ok

Spec == Init /\ [][Next]_vars

\* parse_svg_to_rsx from the point where from_str has returned a Canvas
InitRemap ==
    /\ pc = "rsx"
    /\ typst_output = Malformed
    /\ temp_svg = NoFile
    /\ status = "none"
    /\ content = Malformed
    /\ parsed \in Canvases
    /\ result = NoResult
    /\ steps = <<>>
    /\ out_depth = 1
    /\ dirs = 0
    /\ calls = 1
    /\ file_bytes = [exists |-> FALSE, bytes |-> <<>>]
    /\ read_result = NoRead
    /\ other = NoOther
    /\ msg = <<>>
    /\ convert_error = NoConvertError
    /\ displayed = NotDisplayed

NextRemap == parse_svg_to_rsx_ok

SpecRemap == InitRemap /\ [][NextRemap]_vars

\* ------------------------------------------------------------------------
\* Walking a Canvas and the element built from it side by side
\* ------------------------------------------------------------------------

\* the child sequence of a G, read from the object model alone
GElements(g) == IF g.elements.some THEN g.elements.val ELSE <<>>

Pair(place, kind, in, out) ==
    [place |-> place, kind |-> kind, in |-> in, out |-> out]

\* the pairs (element, node at the same position) beneath a G and its node
RECURSIVE GPairs(_, _)
GPairs(g, n) ==
    UNION {{Pair("g", GElements(g)[i].kind, GElements(g)[i], n.children[i])}
           \cup (IF GElements(g)[i].kind = "G"
                 THEN GPairs(GElements(g)[i], n.children[i])
                 ELSE {})
           : i \in DOMAIN GElements(g) \cap DOMAIN n.children}

\* the pairs beneath a Defs and its node: its symbols and their contents
DefsPairs(defs, n) ==
    UNION {{Pair("defs", "Symbol", defs.elements[i], n.children[i])}
           \cup {Pair("symbol", defs.elements[i].element.kind,
                      defs.elements[i].element, n.children[i].children[j])
                 : j \in {1} \cap DOMAIN n.children[i].children}
           : i \in DOMAIN defs.elements \cap DOMAIN n.children}

\* every pair (element of the Canvas, node at the same position of the tree)
Pairs(svg, n) ==
    UNION {{Pair("svg", svg.elements[i].kind, svg.elements[i], n.children[i])}
           \cup (CASE svg.elements[i].kind = "G" ->
                        GPairs(svg.elements[i], n.children[i])
                   [] svg.elements[i].kind = "Defs" ->
                        DefsPairs(svg.elements[i], n.children[i])
                   [] OTHER -> {})
           : i \in DOMAIN svg.elements \cap DOMAIN n.children}

Returned == pc = "returned" /\ result.kind = "Ok"

ReturnedPairs == Pairs(parsed, result.rsx)

\* the value the empty-string default gives an optional attribute
Defaulted(o) == Text(IF o.some THEN o.val ELSE "")

\* ------------------------------------------------------------------------
\* C1, C2: attribute completeness
\* ------------------------------------------------------------------------

PathKeys ==
    {"d", "class", "fill", "fill_rule", "stroke", "stroke_width",
     "stroke_linecap", "stroke_linejoin", "stroke_miterlimit"}

PathComplete(p, n) ==
    /\ n.tag = "path"
    /\ DOMAIN n.attributes = PathKeys
    /\ n.attributes.d = Text(p.d)
    /\ \A k \in PathKeys \ {"d"} : n.attributes[k] = Defaulted(p[k])

\* C1: every Path of the Canvas, under the svg, under a g or in a symbol, is
\* built as a "path" node whose attribute keys are exactly the nine path keys,
\* with d as in the source, every present optional attribute kept and every
\* absent one set to the empty string.
C1_PathAttributesComplete ==
    Returned =>
        \A pr \in ReturnedPairs : pr.kind = "Path" => PathComplete(pr.in, pr.out)

GKeys == {"class", "transform"}

UseKeys == {"x", "href", "fill", "fill_rule", "transform"}

ImageKeys == {"width", "height", "preserve_aspect_ratio", "href", "transform"}

OptionalKeys(kind) ==
    CASE kind = "G"     -> {"class", "transform"}
      [] kind = "Use"   -> {"fill", "fill_rule", "transform"}
      [] kind = "Image" -> {"transform"}

KeysOf(kind) ==
    CASE kind = "G"     -> GKeys
      [] kind = "Use"   -> UseKeys
      [] kind = "Image" -> ImageKeys

\* C2: every g, use and image node, wherever it occurs, carries the full key
\* set of its tag, and every optional attribute absent in the source is there
\* with the empty string as its value, never an absent value.
C2_OptionalAttributesDefaulted ==
    Returned =>
        \A pr \in ReturnedPairs :
            pr.kind \in {"G", "Use", "Image"} =>
                /\ DOMAIN pr.out.attributes = KeysOf(pr.kind)
                /\ \A k \in OptionalKeys(pr.kind) :
                       pr.out.attributes[k] = Defaulted(pr.in[k])

\* ------------------------------------------------------------------------
\* C3: order of children
\* ------------------------------------------------------------------------

OptText(o) == IF o.some THEN o.val ELSE ""

\* what tells an element of the object model from its siblings: the tag it is
\* written with in the markup and its identifying attribute
InLabel(kind, e) ==
    CASE kind = "Path"   -> <<"path", e.d>>
      [] kind = "G"      -> <<"g", OptText(e.class)>>
      [] kind = "Defs"   -> <<"defs", e.id>>
      [] kind = "Symbol" -> <<"symbol", e.id>>
      [] kind = "Use"    -> <<"use", e.href>>
      [] kind = "Image"  -> <<"image", e.href>>

\* the same, read from a node of the built tree
OutLabel(n) ==
    <<n.tag,
      CASE n.tag = "path" -> n.attributes.d.text
        [] n.tag = "g" -> n.attributes.class.text
        [] n.tag \in {"defs", "symbol"} -> n.attributes.id.text
        [] n.tag \in {"use", "image"} -> n.attributes.href.text
        [] OTHER -> "">>

\* the node has one child per element, the i-th child being the one built
\* from the i-th element
SameOrder(kinds, elements, n) ==
    /\ Len(n.children) = Len(elements)
    /\ \A i \in DOMAIN elements :
           OutLabel(n.children[i]) = InLabel(kinds[i], elements[i])

KindsOf(elements) == [i \in DOMAIN elements |-> elements[i].kind]

\* C3: the node of every container (the svg, every g at every depth, every
\* defs) has exactly one child per element of the container's sequence, in the
\* order of the sequence, as children of the container's own node.
C3_ChildrenInOrder ==
    Returned =>
        /\ SameOrder(KindsOf(parsed.elements), parsed.elements, result.rsx)
        /\ \A pr \in ReturnedPairs :
               /\ pr.kind = "G" =>
                      SameOrder(KindsOf(GElements(pr.in)), GElements(pr.in), pr.out)
               /\ pr.kind = "Defs" =>
                      SameOrder([i \in DOMAIN pr.in.elements |-> "Symbol"],
                                pr.in.elements, pr.out)

\* a group under the canvas whose three children are neither sorted nor alike,
\* and a group under a group
C3_Witness ==
    /\ Returned
    /\ \E pr \in ReturnedPairs :
           /\ pr.place = "svg" /\ pr.kind = "G"
           /\ GElements(pr.in) = <<PlainPath("B"), PlainUse("#a"), PlainPath("A")>>
           /\ Len(pr.out.children) = 3

\* ------------------------------------------------------------------------
\* C4: the tree has the shape of the Canvas
\* ------------------------------------------------------------------------

RECURSIVE SumSeq(_)
SumSeq(ns) == IF ns = <<>> THEN 0 ELSE Head(ns) + SumSeq(Tail(ns))

RECURSIVE MaxSeq(_)
MaxSeq(ns) ==
    IF ns = <<>> THEN 0
    ELSE LET m == MaxSeq(Tail(ns)) IN IF Head(ns) > m THEN Head(ns) ELSE m

\* elements and nesting depth of the object model
RECURSIVE GEleCount(_)
GEleCount(e) ==
    IF e.kind = "G"
    THEN 1 + SumSeq([i \in DOMAIN GElements(e) |-> GEleCount(GElements(e)[i])])
    ELSE 1

RECURSIVE GEleDepth(_)
GEleDepth(e) ==
    IF e.kind = "G"
    THEN 1 + MaxSeq([i \in DOMAIN GElements(e) |-> GEleDepth(GElements(e)[i])])
    ELSE 1

SvgEleCount(e) ==
    CASE e.kind = "Path" -> 1
      [] e.kind = "G"    -> GEleCount(e)
      [] e.kind = "Defs" -> 1 + Len(e.elements) * 2  \* a symbol and its content

SvgEleDepth(e) ==
    CASE e.kind = "Path" -> 1
      [] e.kind = "G"    -> GEleDepth(e)
      [] e.kind = "Defs" -> IF e.elements = <<>> THEN 1 ELSE 3

CanvasCount(svg) ==
    1 + SumSeq([i \in DOMAIN svg.elements |-> SvgEleCount(svg.elements[i])])

CanvasDepth(svg) ==
    1 + MaxSeq([i \in DOMAIN svg.elements |-> SvgEleDepth(svg.elements[i])])

\* nodes and nesting depth of the built tree
RECURSIVE NodeCount(_)
NodeCount(n) ==
    1 + SumSeq([i \in DOMAIN n.children |-> NodeCount(n.children[i])])

RECURSIVE NodeDepth(_)
NodeDepth(n) ==
    1 + MaxSeq([i \in DOMAIN n.children |-> NodeDepth(n.children[i])])

TagOfKind(kind) ==
    CASE kind = "Path"   -> "path"
      [] kind = "G"      -> "g"
      [] kind = "Defs"   -> "defs"
      [] kind = "Symbol" -> "symbol"
      [] kind = "Use"    -> "use"
      [] kind = "Image"  -> "image"

\* C4: the built tree has as many nodes as the Canvas has elements, the same
\* nesting depth, and at every position the tag of the element's kind.
C4_SameShape ==
    Returned =>
        /\ NodeCount(result.rsx) = CanvasCount(parsed)
        /\ NodeDepth(result.rsx) = CanvasDepth(parsed)
        /\ result.rsx.tag = "svg"
        /\ \A pr \in ReturnedPairs : pr.out.tag = TagOfKind(pr.kind)

\* a defs of three symbols: eight elements, four levels
C4_Witness ==
    /\ Returned
    /\ Len(parsed.elements) = 1
    /\ parsed.elements[1].kind = "Defs"
    /\ Len(parsed.elements[1].elements) = 3
    /\ NodeCount(result.rsx) = 8
    /\ NodeDepth(result.rsx) = 4

\* ------------------------------------------------------------------------
\* C5: a group without children
\* ------------------------------------------------------------------------

\* the one node a childless group of this class and transform is built as,
\* whichever way its child sequence is missing
ChildlessGNode(class, transform) ==
    Element("g", [class |-> Defaulted(class), transform |-> Defaulted(transform)],
            <<>>)

\* C5: a Group whose child sequence is absent and a Group whose child
\* sequence is present but empty are built as the same node: tag "g", no
\* children, and attributes that depend on class and transform alone; under
\* the svg and under a g alike.
C5_AbsentAndEmptyAlike ==
    Returned =>
        \A pr \in ReturnedPairs :
            (pr.kind = "G" /\ GElements(pr.in) = <<>>) =>
                /\ pr.out.tag = "g"
                /\ Len(pr.out.children) = 0
                /\ pr.out = ChildlessGNode(pr.in.class, pr.in.transform)

\* a group holding an absent and an empty group of the same attributes, built
\* as two equal nodes
C5_Witness ==
    /\ Returned
    /\ \E pr \in ReturnedPairs :
           /\ pr.place = "svg" /\ pr.kind = "G"
           /\ GElements(pr.in) = <<G(None, None, NoElements),
                                   G(None, None, SomeElements(<<>>))>>
           /\ Len(pr.out.children) = 2
           /\ pr.out.children[1] = pr.out.children[2]

\* ------------------------------------------------------------------------
\* C6: a symbol has one child
\* ------------------------------------------------------------------------

\* C6: every Symbol is built as a "symbol" node with exactly one child, a
\* "path" when its content is a Path and an "image" when it is an Image.
C6_SymbolHasOneChild ==
    Returned =>
        \A pr \in ReturnedPairs :
            pr.kind = "Symbol" =>
                /\ pr.out.tag = "symbol"
                /\ Len(pr.out.children) = 1
                /\ pr.out.children[1].tag =
                       (IF pr.in.element.kind = "Path" THEN "path" ELSE "image")

\* a defs holding a symbol of each content
C6_Witness ==
    /\ Returned
    /\ \E p, q \in ReturnedPairs :
           /\ p.kind = "Symbol" /\ p.in.element.kind = "Path"
           /\ q.kind = "Symbol" /\ q.in.element.kind = "Image"
           /\ p.out.children[1].tag = "path"
           /\ q.out.children[1].tag = "image"

\* ------------------------------------------------------------------------
\* C7: tags
\* ------------------------------------------------------------------------

RECURSIVE TagsIn(_)
TagsIn(n) == {n.tag} \cup UNION {TagsIn(n.children[i]) : i \in DOMAIN n.children}

Tags == {"svg", "path", "g", "defs", "use", "image", "symbol"}

\* C7: the root is "svg", every node has the tag of its element's kind
\* (Path "path", G "g", Defs "defs", Use "use", Image "image", Symbol
\* "symbol"), spelled exactly so, and no other tag occurs in the tree.
C7_TagsExact ==
    Returned =>
        /\ result.rsx.tag = "svg"
        /\ TagsIn(result.rsx) \subseteq Tags
        /\ \A pr \in ReturnedPairs :
               pr.out.tag =
                   (CASE pr.kind = "Path"   -> "path"
                      [] pr.kind = "G"      -> "g"
                      [] pr.kind = "Defs"   -> "defs"
                      [] pr.kind = "Use"    -> "use"
                      [] pr.kind = "Image"  -> "image"
                      [] pr.kind = "Symbol" -> "symbol")

\* a tree in which every one of the seven tags occurs
C7_Witness == Returned /\ TagsIn(result.rsx) = Tags

\* ------------------------------------------------------------------------
\* C8, C9: what the parser rejects
\* ------------------------------------------------------------------------

\* the call has gone through from_str on the text it read
Parsed == "parse" \in {steps[i] : i \in DOMAIN steps}

ParseFailed ==
    /\ pc = "returned"
    /\ result.kind = "Err"
    /\ result.err.variant = "SvgParseError"
    /\ result.err.cause # ""

\* the child tags each container of the schema admits
Permitted(tag) ==
    CASE tag = "svg"    -> {"path", "g", "defs"}
      [] tag = "g"      -> {"g", "use", "path", "image"}
      [] tag = "defs"   -> {"symbol"}
      [] tag = "symbol" -> {"path", "image"}

\* some container of the schema, at any depth, holds a child of a tag it does
\* not admit
RECURSIVE HoldsForbiddenChild(_)
HoldsForbiddenChild(node) ==
    \/ /\ node.tag \in {"svg", "g", "defs", "symbol"}
       /\ \E i \in DOMAIN node.children :
              node.children[i].tag \notin Permitted(node.tag)
    \/ \E i \in DOMAIN node.children : HoldsForbiddenChild(node.children[i])

\* C8: when a container of the schema holds a child whose tag it does not
\* admit (svg: path, g, defs; g: g, use, path, image; defs: symbol; symbol:
\* path, image), parsing returns a parse error, never a tree.
C8_ForbiddenChildRejected ==
    (Parsed /\ content.well_formed /\ HoldsForbiddenChild(content.root))
        => ParseFailed

\* some element, at any depth, lacks a String field of the struct of its tag
RECURSIVE LacksRequired(_)
LacksRequired(node) ==
    \/ \E r \in RequiredNames(node.tag) : ~HasAttr(node, r)
    \/ \E i \in DOMAIN node.children : LacksRequired(node.children[i])

Ran(step) == \E i \in DOMAIN steps : steps[i] = step

\* C10: when the typst command ran and returned a failure status, or could not
\* be started, typst_to_rsx runs neither the read nor the parse, and what it
\* returns is a compile error.
C10_CompileFailureStops ==
    (status = "Ok(failure)" \/ (status = "Err" /\ result.err.cause = "spawn"))
        => /\ ~Ran("read")
           /\ ~Ran("parse")
           /\ pc = "returned" =>
                  (result.kind = "Err" /\ result.err.variant = "TypstCompileError")

\* ---------------------------------------------------------------------------
\* The steps of one call

StepOrder == <<"compile", "read", "parse", "rsx">>

InOrder == Len(steps) <= Len(StepOrder) /\ \A i \in DOMAIN steps : steps[i] = StepOrder[i]

LastStep == IF steps = <<>> THEN "none" ELSE steps[Len(steps)]

\* the step an error comes from, by what failed
StepOfCause(cause) ==
    CASE cause \in {"create_dir_all", "spawn"} -> "compile"
      [] cause \in {"open", "read"} -> "read"
      [] OTHER -> "parse"

\* the compile step failed: the directory could not be made, the command
\* could not be started, or it ran and returned a failure status
CompileFailed == status \in {"Err", "Ok(failure)"}

\* C11: the steps of typst_to_rsx run in the order compile, read, parse,
\* remap; the read runs only after a compile that succeeded, the parse only
\* after a read that returned the text, the remap only after a parse that
\* returned an Svg; after a step has failed no other step runs, and what is
\* returned is the error of that step.
C11_StepsInOrder ==
    /\ InOrder
    /\ Ran("read") => status = "Ok(success)"
    /\ Ran("parse") => (Ran("read") /\ content = temp_svg.text)
    /\ Ran("rsx") => (Ran("parse") /\ from_str(content).ok)
    /\ CompileFailed => steps = <<"compile">>
    /\ (pc = "returned" /\ result.kind = "Err") =>
           StepOfCause(result.err.cause) = LastStep

\* the kind of failure an Error variant stands for
KindOfVariant(variant) ==
    CASE variant = "TypstCompileError" -> "CompileFailure"
      [] variant = "SvgParseError" -> "ParseFailure"
      [] OTHER -> "ReadFailure"

KindOfStep(step) ==
    CASE step = "compile" -> "CompileFailure"
      [] step = "read" -> "ReadFailure"
      [] OTHER -> "ParseFailure"

DeCauses == {"missing field", "unknown variant", "duplicate field", "syntax"}

\* C12: the error typst_to_rsx returns names the step that failed and holds
\* what went wrong there: a file that cannot be opened or read is a
\* ReadFailure holding the io error, text that is not the schema's is a
\* ParseFailure holding the deserializer's error, and a ReadFailure is
\* returned for no failure of the compile or of the parse, a CompileFailure
\* or ParseFailure for no failure of the read.
C12_ErrorNamesStep ==
    (pc = "returned" /\ result.kind = "Err") =>
        /\ KindOfVariant(result.err.variant) = KindOfStep(LastStep)
        /\ KindOfVariant(result.err.variant) = KindOfStep(StepOfCause(result.err.cause))
        /\ KindOfVariant(result.err.variant) = "ReadFailure" =>
               (result.err.cause \in {"open", "read"} /\ ~CompileFailed)
        /\ KindOfVariant(result.err.variant) = "ParseFailure" =>
               (result.err.cause \in DeCauses /\ result.err.cause = from_str(content).err)

\* ---------------------------------------------------------------------------
\* read_file on the bytes of a file

MaxFileLen == 4

\* a letter, the two line terminator bytes, and a byte that is not UTF-8
Bytes == {"a", "\r", "\n", "0xFF"}

NoBytes == [exists |-> FALSE, bytes |-> <<>>]

BytesOf(bytes) == [exists |-> TRUE, bytes |-> bytes]

ReadOk(text) == [kind |-> "Ok", text |-> text]

ReadErr == [kind |-> "Err", text |-> <<>>]

\* BufRead::read_line: the bytes up to and including the first \n, or all of
\* them when there is none
FirstLine(bytes) ==
    IF \E i \in DOMAIN bytes : bytes[i] = "\n"
    THEN SubSeq(bytes, 1, CHOOSE i \in DOMAIN bytes :
                              /\ bytes[i] = "\n"
                              /\ \A j \in 1..(i - 1) : bytes[j] # "\n")
    ELSE bytes

\* Lines::next: a trailing \n is taken off the line, and then a trailing \r
StripTerminator(line) ==
    IF line # <<>> /\ line[Len(line)] = "\n"
    THEN IF Len(line) >= 2 /\ line[Len(line) - 1] = "\r"
         THEN SubSeq(line, 1, Len(line) - 2)
         ELSE SubSeq(line, 1, Len(line) - 1)
    ELSE line

RECURSIVE read_lines(_, _)

\* the for loop of read_file over reader.lines(): each line is pushed onto
\* content (here pushed) and a \n after it; a line that is not UTF-8 is an Err, returned
read_lines(bytes, pushed) ==
    IF bytes = <<>> THEN ReadOk(pushed)
    ELSE LET line == FirstLine(bytes)
             rest == SubSeq(bytes, Len(line) + 1, Len(bytes))
         IN  IF \E i \in DOMAIN line : line[i] = "0xFF"
             THEN ReadErr
             ELSE read_lines(rest, pushed \o StripTerminator(line) \o <<"\n">>)

\* read_file(path), called on its own: the file cannot be opened, or a read
\* fails, or the lines are put together
read_file_call ==
    /\ pc = "read_file"
    /\ \/ /\ ~file_bytes.exists
          /\ read_result' = ReadErr
       \/ /\ file_bytes.exists
          /\ read_result' = ReadErr
       \/ /\ file_bytes.exists
          /\ read_result' = read_lines(file_bytes.bytes, <<>>)
    /\ pc' = "returned"
    /\ UNCHANGED <<typst_output, temp_svg, status, content, parsed, result, steps,
                   out_depth, dirs, calls, file_bytes, other>>
    /\ UNCHANGED error_vars

InitRead ==
    /\ pc = "read_file"
    /\ file_bytes \in {NoBytes} \cup {BytesOf(b) : b \in SeqsUpTo(Bytes, MaxFileLen)}
    /\ read_result = NoRead
    /\ other = NoOther
    /\ msg = <<>>
    /\ convert_error = NoConvertError
    /\ displayed = NotDisplayed
    /\ typst_output = Malformed
    /\ temp_svg = NoFile
    /\ status = "none"
    /\ content = Malformed
    /\ parsed = NoSvg
    /\ result = NoResult
    /\ steps = <<>>
    /\ out_depth = 1
    /\ dirs = 0
    /\ calls = 1

NextRead == read_file_call

SpecRead == InitRead /\ [][NextRead]_vars

\* C13: for a file that read_file could read as text, the string returned
\* is the bytes of the file, unchanged: no line terminator added, taken away
\* or turned into another, whether the last line ends in a newline or not,
\* whether lines end in \r\n, and for the empty file.
C13_ReadKeepsBytes ==
    (pc = "returned" /\ read_result.kind = "Ok") =>
        read_result.text = file_bytes.bytes

\* C14: whatever fails on the way (create_dir_all, starting typst, typst's
\* exit status, opening or reading the file, text that is not XML or not the
\* schema's), typst_to_rsx and parse_svg_to_rsx in it do not panic: the call
\* is at one of its steps, where the step has an outcome for what it is
\* given, or it has returned, and it has returned exactly when there is an Ok
\* holding a tree or an Err holding an error.
C14_NoPanic ==
    /\ pc \in {"compile", "read", "parse", "rsx", "returned"}
    /\ pc = "returned" <=> result.kind \in {"Ok", "Err"}
    /\ result.kind = "Ok" => result.rsx.tag = "svg"
    /\ result.kind = "Err" =>
           result.err.variant \in {"TypstCompileError", "ReadFailure", "SvgParseError"}
    /\ pc = "parse" => (from_str(content).ok \/ from_str(content).err \in DeCauses)
    /\ pc = "rsx" => (from_str(content).ok /\ svg_element(parsed).tag = "svg")

C14_Witness ==
    /\ pc = "returned"
    /\ content = Malformed
    /\ Ran("parse")
    /\ result = Err("SvgParseError", "syntax")

\* ---------------------------------------------------------------------------
\* Two calls of typst_to_rsx at the same time.  Both compile to and read from
\* "./tmp/temp.svg" (lib.rs 324-325): temp_svg and dirs are the one file and
\* directory they share, and each call has its own locals.  The first call is
\* the one of Spec; the second is kept in other, with the same steps.

\* other.compiled_at is where the first call was when the second compiled

\* the second call compiling to a file of its own in place of ./tmp/temp.svg
other_typst_compile_own_file ==
    /\ other.pc = "compile"
    /\ \E ret \in {"Err(spawn)", "Ok(success)", "Ok(failure)"} :
           other' = [other EXCEPT
                        !.pc = IF ret = "Err(spawn)" THEN "returned" ELSE "read",
                        !.status = IF ret = "Err(spawn)" THEN "Err" ELSE ret,
                        !.result = IF ret = "Err(spawn)"
                                   THEN Err("TypstCompileError", "spawn")
                                   ELSE @,
                        !.compiled_at = pc]
    /\ UNCHANGED <<pc, typst_output, temp_svg, status, content, parsed, result,
                   steps, out_depth, dirs, calls, file_bytes, read_result>>
    /\ UNCHANGED error_vars

\* typst_compile(input_typ_file, "./tmp/temp.svg")? of the second call
other_typst_compile ==
    /\ other.pc = "compile"
    /\ \E ret \in CompileReturns :
           /\ typst_compile_returns(other.typst_output, ret)
           /\ other' = [other EXCEPT
                            !.pc = IF ret \in {"Ok(success)", "Ok(failure)"}
                                   THEN "read" ELSE "returned",
                            !.status = IF ret \in {"Ok(success)", "Ok(failure)"}
                                       THEN ret ELSE "Err",
                            !.result = CASE ret = "Err(create_dir_all)" ->
                                                from_io_error("create_dir_all")
                                         [] ret = "Err(spawn)" ->
                                                Err("TypstCompileError", "spawn")
                                         [] OTHER -> @,
                            !.compiled_at = pc]
    /\ UNCHANGED <<pc, typst_output, status, content, parsed, result, steps,
                   out_depth, calls, file_bytes, read_result>>
    /\ UNCHANGED error_vars

\* read_file("./tmp/temp.svg")? of the second call
other_read_file ==
    /\ other.pc = "read"
    /\ \/ /\ ~temp_svg.exists
          /\ other' = [other EXCEPT !.pc = "returned",
                                    !.result = from_io_error("open")]
       \/ /\ temp_svg.exists
          /\ other' = [other EXCEPT !.pc = "returned",
                                    !.result = from_io_error("read")]
       \/ /\ temp_svg.exists
          /\ other' = [other EXCEPT !.pc = "parse", !.content = temp_svg.text]
    /\ UNCHANGED <<pc, typst_output, temp_svg, status, content, parsed, result,
                   steps, out_depth, dirs, calls, file_bytes, read_result>>
    /\ UNCHANGED error_vars

\* the match on from_str(svg_str) in parse_svg_to_rsx of the second call
other_parse_svg_to_rsx_from_str ==
    /\ other.pc = "parse"
    /\ other' = IF from_str(other.content).ok
                THEN [other EXCEPT !.pc = "rsx",
                                   !.parsed = from_str(other.content).val]
                ELSE [other EXCEPT !.pc = "returned",
                                   !.result = Err("SvgParseError",
                                                  from_str(other.content).err)]
    /\ UNCHANGED <<pc, typst_output, temp_svg, status, content, parsed, result,
                   steps, out_depth, dirs, calls, file_bytes, read_result>>
    /\ UNCHANGED error_vars

\* the Ok arm of the second call
other_parse_svg_to_rsx_ok ==
    /\ other.pc = "rsx"
    /\ other' = [other EXCEPT !.pc = "returned",
                              !.result = Ok(svg_element(other.parsed))]
    /\ UNCHANGED <<pc, typst_output, temp_svg, status, content, parsed, result,
                   steps, out_depth, dirs, calls, file_bytes, read_result>>
    /\ UNCHANGED error_vars

Markup(children) ==
    [well_formed |-> TRUE,
     root |-> SvgRoot(Attrs(RequiredNames("svg")), children)]

\* the documents the two calls are made for
FewMarkups ==
    {Markup(<<GoodPath>>),
     Markup(<<XmlNode("g", {}, <<GoodUse>>)>>),
     Markup(<<XmlNode("defs", {}, <<GoodSymbol(GoodImage)>>), GoodPath>>),
     Malformed}

InitConcurrent ==
    /\ pc = "compile"
    /\ typst_output \in FewMarkups
    /\ \E svg \in FewMarkups \ {typst_output} :
           other = [NoOther EXCEPT !.pc = "compile", !.typst_output = svg]
    /\ msg = <<>>
    /\ convert_error = NoConvertError
    /\ displayed = NotDisplayed
    /\ out_depth = 1
    /\ \E fs \in FileSystems(1) : temp_svg = fs.file /\ dirs = fs.dirs
    /\ status = "none"
    /\ content = Malformed
    /\ parsed = NoSvg
    /\ result = NoResult
    /\ steps = <<>>
    /\ calls = 2
    /\ file_bytes = NoBytes
    /\ read_result = NoRead

NextConcurrent ==
    \/ typst_compile
    \/ read_file
    \/ parse_svg_to_rsx_from_str
    \/ parse_svg_to_rsx_ok
    \/ other_typst_compile
    \/ other_read_file
    \/ other_parse_svg_to_rsx_from_str
    \/ other_parse_svg_to_rsx_ok

SpecConcurrent == InitConcurrent /\ [][NextConcurrent]_vars

\* the first call compiled with success, then the second did, then the first
\* read the file
CompiledInBetween ==
    /\ status = "Ok(success)"
    /\ other.status = "Ok(success)"
    /\ other.compiled_at = "read"
    /\ pc \in {"parse", "rsx"} \/ (pc = "returned" /\ Ran("parse"))

\* the tree parse_svg_to_rsx makes of a text that parses
TreeOf(svg_str) == svg_element(from_str(svg_str).val)

\* C15: two calls for different documents that run at the same time write
\* and read the same ./tmp/temp.svg: when the second call's compile comes
\* between the first call's compile and its read, what the first call reads,
\* and the tree it returns, is that of the second call's document.
C15_ReadsOthersFile ==
    CompiledInBetween =>
        /\ content = other.typst_output
        /\ Returned => result = Ok(TreeOf(other.typst_output))

C15_Witness ==
    /\ CompiledInBetween
    /\ Returned
    /\ from_str(typst_output).ok
    /\ typst_output # other.typst_output
    /\ result = Ok(TreeOf(other.typst_output))
    /\ result # Ok(TreeOf(typst_output))

\* how many times a step has run
TimesRan(step) == Cardinality({i \in DOMAIN steps : steps[i] = step})

AtMostOnce == \A step \in {"compile", "read", "parse"} : TimesRan(step) <= 1

\* C16: in one call of typst_to_rsx the compile, the read and the parse each
\* run at most once: a step that failed is not run again, and its error is
\* what the call returns, with no step run after it.
C16_NoRetry ==
    /\ AtMostOnce
    /\ CompileFailed =>
           (pc = "returned" /\ result.kind = "Err" /\ LastStep = "compile")
    /\ (pc = "returned" /\ result.kind = "Err") =>
           /\ LastStep = StepOfCause(result.err.cause)
           /\ TimesRan(LastStep) = 1

\* the tree for ScenarioMarkup: the attribute written view_box in rsx! is
\* the svg attribute viewBox
ScenarioTree ==
    Element("svg",
            [view_box |-> Text("0 0 100 100"),
             width    |-> Text("100"),
             height   |-> Text("100")],
            <<Element("path",
                      [d                 |-> Text("M0 0L10 10"),
                       class             |-> Text(""),
                       fill              |-> Text(""),
                       fill_rule         |-> Text(""),
                       stroke            |-> Text(""),
                       stroke_width      |-> Text(""),
                       stroke_linecap    |-> Text(""),
                       stroke_linejoin   |-> Text(""),
                       stroke_miterlimit |-> Text("")],
                      <<>>)>>)

\* C18: when typst succeeds and the file it wrote is
\* <svg class="" width="100" height="100" viewBox="0 0 100 100"><path d="M0 0L10 10"/></svg>,
\* and the file is read, typst_to_rsx returns Ok with an svg element with
\* width "100", height "100", viewBox "0 0 100 100" and one child: a path
\* with d "M0 0L10 10", class "", fill "" and every other optional attribute
\* "", and no children.
C18_Scenario ==
    (pc = "returned" /\ status = "Ok(success)" /\ typst_output = ScenarioMarkup
        /\ Ran("parse"))
        => result = Ok(ScenarioTree)

C18_Witness ==
    /\ pc = "returned"
    /\ status = "Ok(success)"
    /\ typst_output = ScenarioMarkup
    /\ content = ScenarioMarkup
    /\ result = Ok(ScenarioTree)
    /\ Len(result.rsx.children) = 1
    /\ result.rsx.children[1].children = <<>>

\* ---------------------------------------------------------------------------
\* References

\* a node and every node beneath it, of a markup or of a tree
RECURSIVE NodesIn(_)
NodesIn(n) == {n} \cup UNION {NodesIn(n.children[i]) : i \in DOMAIN n.children}

SymbolIds(root) ==
    {AttrOf(s, "id") : s \in {n \in NodesIn(root) : n.tag = "symbol" /\ HasAttr(n, "id")}}

UsesIn(root) == {n \in NodesIn(root) : n.tag = "use"}

\* some use of the document names an id that no symbol of it has
Dangling(root) ==
    \E u \in UsesIn(root) :
        HasAttr(u, "href") /\ Target(AttrOf(u, "href")) \notin SymbolIds(root)

\* the document is the schema's: each container holds children it admits
\* (a symbol one, an svg and a defs at least one) and each element has the
\* attributes its struct requires
WellShaped(root) ==
    /\ ~HoldsForbiddenChild(root)
    /\ ~LacksRequired(root)
    /\ \A n \in NodesIn(root) :
           /\ n.tag \in {"svg", "defs"} => Len(n.children) >= 1
           /\ n.tag = "symbol" => Len(n.children) = 1
           /\ n.tag \in {"path", "use", "image"} => n.children = <<>>

\* href and x of each use, as written in the markup and as held by the tree
UseValuesIn(root) == {<<AttrOf(u, "href"), AttrOf(u, "x")>> : u \in UsesIn(root)}

UseValuesOut(rsx) ==
    {<<u.attributes.href, u.attributes.x>> : u \in UsesIn(rsx)}

\* C19: references are not resolved: a document of the schema in which a use
\* names an id that no symbol has parses, and in the tree returned each use
\* node holds href and x as they were written.
C19_DanglingUseKept ==
    (Parsed /\ content.well_formed /\ WellShaped(content.root)
        /\ Dangling(content.root))
        => /\ ~ParseFailed
           /\ pc = "returned" =>
                  /\ result.kind = "Ok"
                  /\ UseValuesOut(result.rsx) =
                         {<<Text(v[1]), Text(v[2])>> : v \in UseValuesIn(content.root)}

C19_Witness ==
    /\ Returned
    /\ content = DanglingMarkup
    /\ Dangling(content.root)
    /\ SymbolIds(content.root) = {"g1"}
    /\ UseValuesOut(result.rsx) = {<<Text("#missing"), Text("7")>>}

\* ---------------------------------------------------------------------------
\* typst_compile called on its own, more than once, for an output file some
\* directories deep.  Here steps holds the calls made: what each found, what
\* it returned and what it left.

MaxPathDepth == 3

MaxCalls == 3

Call(dirs_before, file_before, ret, dirs_after) ==
    [dirs_before |-> dirs_before, file_before |-> file_before, ret |-> ret,
     dirs_after |-> dirs_after]

\* typst_compile with the exit status looked at: a failure status is an Err
typst_compile_call_status_checked ==
    /\ pc = "typst_compile"
    /\ \E ret \in CompileReturns :
           /\ typst_compile_returns(typst_output, ret)
           /\ status' = IF ret = "Ok(success)" THEN ret ELSE "Err"
           /\ result' = CASE ret = "Err(create_dir_all)" -> from_io_error("create_dir_all")
                          [] ret = "Err(spawn)" -> Err("TypstCompileError", "spawn")
                          [] ret = "Ok(failure)" -> Err("TypstCompileError", "exit status")
                          [] OTHER -> NoResult
           /\ steps' = Append(steps, Call(dirs, temp_svg.exists, ret, dirs'))
    /\ pc' = "returned"
    /\ UNCHANGED <<typst_output, content, parsed, out_depth, calls, file_bytes,
                   read_result, other>>
    /\ UNCHANGED error_vars

\* typst_compile(input_typ_file, output_svg_file)
typst_compile_call ==
    /\ pc = "typst_compile"
    /\ \E ret \in CompileReturns :
           /\ typst_compile_returns(typst_output, ret)
           /\ status' = IF ret \in {"Ok(success)", "Ok(failure)"} THEN ret ELSE "Err"
           /\ result' = CASE ret = "Err(create_dir_all)" -> from_io_error("create_dir_all")
                          [] ret = "Err(spawn)" -> Err("TypstCompileError", "spawn")
                          [] OTHER -> NoResult
           /\ steps' = Append(steps, Call(dirs, temp_svg.exists, ret, dirs'))
    /\ pc' = "returned"
    /\ UNCHANGED <<typst_output, content, parsed, out_depth, calls, file_bytes,
                   read_result, other>>
    /\ UNCHANGED error_vars

\* the caller calls typst_compile again, for the same files
typst_compile_again ==
    /\ pc = "returned"
    /\ calls < MaxCalls
    /\ calls' = calls + 1
    /\ pc' = "typst_compile"
    /\ status' = "none"
    /\ result' = NoResult
    /\ UNCHANGED <<typst_output, temp_svg, content, parsed, steps, out_depth,
                   dirs, file_bytes, read_result, other>>
    /\ UNCHANGED error_vars

InitCompile ==
    /\ pc = "typst_compile"
    /\ typst_output \in FewMarkups
    /\ out_depth \in 1..MaxPathDepth
    /\ \E fs \in FileSystems(out_depth) : temp_svg = fs.file /\ dirs = fs.dirs
    /\ status = "none"
    /\ content = Malformed
    /\ parsed = NoSvg
    /\ result = NoResult
    /\ steps = <<>>
    /\ calls = 1
    /\ file_bytes = NoBytes
    /\ read_result = NoRead
    /\ other = NoOther
    /\ msg = <<>>
    /\ convert_error = NoConvertError
    /\ displayed = NotDisplayed

NextCompile ==
    \/ typst_compile_call
    \/ typst_compile_again

SpecCompile == InitCompile /\ [][NextCompile]_vars

MaxMsgLen == 3

\* a letter, a blank, a colon and the two braces of a format string
Chars == {"a", " ", ":", "{", "}"}

\* struct ConvertError { details }
ConvertError(details) == [made |-> TRUE, details |-> details]

\* msg.to_string(): the characters of msg, in a String of its own
to_string(text) == [i \in 1..Len(text) |-> text[i]]

\* fmt with {:?} in place of {}: the details are written as a quoted literal
RECURSIVE write_debug(_, _)
write_debug(template, arg) ==
    IF template = <<>> THEN <<>>
    ELSE IF Len(template) >= 2 /\ template[1] = "{" /\ template[2] = "}"
    THEN <<"\"">> \o arg \o <<"\"">>
         \o write_debug(SubSeq(template, 3, Len(template)), arg)
    ELSE <<template[1]>> \o write_debug(SubSeq(template, 2, Len(template)), arg)

\* write!(f, template, arg): the template is written as it is but for its
\* {}, where arg is written as it is
RECURSIVE write(_, _)
write(template, arg) ==
    IF template = <<>> THEN <<>>
    ELSE IF Len(template) >= 2 /\ template[1] = "{" /\ template[2] = "}"
    THEN arg \o write(SubSeq(template, 3, Len(template)), arg)
    ELSE <<template[1]>> \o write(SubSeq(template, 2, Len(template)), arg)

\* ConvertError::new(msg)
new(text) == ConvertError(to_string(text))

\* the format string of Display for ConvertError: "MyError: {}"
Template == <<"M", "y", "E", "r", "r", "o", "r", ":", " ", "{", "}">>

\* <ConvertError as fmt::Display>::fmt
fmt(self) == write(Template, self.details)

\* let error = ConvertError::new(msg)
ConvertError_new ==
    /\ pc = "new"
    /\ convert_error' = new(msg)
    /\ pc' = "made"
    /\ UNCHANGED <<typst_output, temp_svg, status, content, parsed, result, steps,
                   out_depth, dirs, calls, file_bytes, read_result, other, msg,
                   displayed>>

\* format!("{}", error)
ConvertError_fmt ==
    /\ pc = "made"
    /\ displayed' = [written |-> TRUE, text |-> fmt(convert_error)]
    /\ pc' = "displayed"
    /\ UNCHANGED <<typst_output, temp_svg, status, content, parsed, result, steps,
                   out_depth, dirs, calls, file_bytes, read_result, other, msg,
                   convert_error>>

InitError ==
    /\ pc = "new"
    /\ msg \in SeqsUpTo(Chars, MaxMsgLen)
    /\ convert_error = NoConvertError
    /\ displayed = NotDisplayed
    /\ typst_output = Malformed
    /\ temp_svg = NoFile
    /\ status = "none"
    /\ content = Malformed
    /\ parsed = NoSvg
    /\ result = NoResult
    /\ steps = <<>>
    /\ out_depth = 1
    /\ dirs = 0
    /\ calls = 1
    /\ file_bytes = NoBytes
    /\ read_result = NoRead
    /\ other = NoOther

NextError ==
    \/ ConvertError_new
    \/ ConvertError_fmt

SpecError == InitError /\ [][NextError]_vars

\* C21: the error ConvertError::new(msg) returns has msg as its details, for
\* every msg, and displaying it writes "MyError: " and then the details,
\* nothing else.
C21_NewAndDisplay ==
    /\ convert_error.made => convert_error.details = msg
    /\ displayed.written =>
           displayed.text =
               <<"M", "y", "E", "r", "r", "o", "r", ":", " ">> \o convert_error.details

\* a message that holds the braces of a format string, displayed
C21_Witness ==
    /\ pc = "displayed"
    /\ msg = <<"{", "}", "a">>
    /\ convert_error.details = <<"{", "}", "a">>
    /\ displayed.text = <<"M", "y", "E", "r", "r", "o", "r", ":", " ", "{", "}", "a">>

\* what happened in the call of typst_compile that has just returned
LastCall == steps[Len(steps)]

\* C22: typst_compile returns Err exactly when create_dir_all failed or the
\* typst command could not be started, and the Err holds that io error; in
\* every other case it returns Ok holding the exit status of the command,
\* a failure status as much as a success.
C22_ErrIffIoError ==
    (pc = "returned" /\ steps # <<>>) =>
        /\ status = "Err" <=> LastCall.ret \in {"Err(create_dir_all)", "Err(spawn)"}
        /\ status = "Err" =>
               /\ result.kind = "Err"
               /\ result.err.cause \in {"create_dir_all", "spawn"}
               /\ LastCall.ret = "Err(create_dir_all)" <=> result.err.cause = "create_dir_all"
        /\ status # "Err" =>
               /\ status \in {"Ok(success)", "Ok(failure)"}
               /\ status = LastCall.ret
               /\ result = NoResult

\* the command ran and exited with a failure status: Ok, holding that status
C22_Witness ==
    /\ pc = "returned"
    /\ steps # <<>>
    /\ LastCall.ret = "Ok(failure)"
    /\ status = "Ok(failure)"
    /\ result.kind # "Err"

\* ---------------------------------------------------------------------------
\* Calls of typst_to_rsx one after another, each made when the one before has
\* returned, each for a document of its own.  ./tmp/temp.svg is not there
\* before the first call; what a call leaves there, the next one finds.

\* the caller calls typst_to_rsx again, for another document: the locals are
\* those of the new call
typst_to_rsx_again ==
    /\ pc = "returned"
    /\ calls < MaxCalls
    /\ calls' = calls + 1
    /\ typst_output' \in FewMarkups \ {typst_output}
    /\ pc' = "compile"
    /\ status' = "none"
    /\ content' = Malformed
    /\ parsed' = NoSvg
    /\ result' = NoResult
    /\ steps' = <<>>
    /\ UNCHANGED <<temp_svg, out_depth, dirs, file_bytes, read_result, other>>
    /\ UNCHANGED error_vars

InitSequence ==
    /\ pc = "compile"
    /\ typst_output \in FewMarkups
    /\ out_depth = 1
    /\ temp_svg = NoFile
    /\ dirs \in 0..1
    /\ status = "none"
    /\ content = Malformed
    /\ parsed = NoSvg
    /\ result = NoResult
    /\ steps = <<>>
    /\ calls = 1
    /\ file_bytes = NoBytes
    /\ read_result = NoRead
    /\ other = NoOther
    /\ msg = <<>>
    /\ convert_error = NoConvertError
    /\ displayed = NotDisplayed

NextSequence ==
    \/ typst_compile
    \/ read_file
    \/ parse_svg_to_rsx_from_str
    \/ parse_svg_to_rsx_ok
    \/ typst_to_rsx_again

SpecSequence == InitSequence /\ [][NextSequence]_vars

\* C23: of calls of typst_to_rsx made one after another, each one that
\* returns Ok returns the tree of the markup its own compile wrote for its
\* own document, and never the tree of a file an earlier call left at
\* ./tmp/temp.svg.
C23_OwnTree ==
    Returned =>
        /\ status = "Ok(success)"
        /\ content = typst_output
        /\ result = Ok(TreeOf(typst_output))

\* C24: the svg element returned holds the Svg's view_box, width and height
\* as they were written, character for character, numbers or not, under the
\* keys view_box (the attribute viewBox), width and height and no other key:
\* class is read into the Svg, since it is required, and is not in the tree.
C24_RootAttributes ==
    (Returned /\ Ran("parse")) =>
        /\ DOMAIN result.rsx.attributes = {"view_box", "width", "height"}
        /\ result.rsx.attributes.view_box = Text(AttrOf(content.root, "viewBox"))
        /\ result.rsx.attributes.width = Text(AttrOf(content.root, "width"))
        /\ result.rsx.attributes.height = Text(AttrOf(content.root, "height"))
        /\ result.rsx.attributes.view_box = Text(parsed.view_box)
        /\ result.rsx.attributes.width = Text(parsed.width)
        /\ result.rsx.attributes.height = Text(parsed.height)
        /\ HasAttr(content.root, "class")
        /\ parsed.class = AttrOf(content.root, "class")

\* an svg whose width, height and viewBox are no numbers, and whose class is
\* not empty
C24_Witness ==
    /\ Returned
    /\ Ran("parse")
    /\ AttrOf(content.root, "class") = "typst-doc"
    /\ parsed.class = "typst-doc"
    /\ result.rsx.attributes =
           [view_box |-> Text("not a box"), width |-> Text("auto"),
            height |-> Text("1e3 pt")]

====
